---- MODULE Spec2Model ----
(***************************************************************************)
(* Front-end / back-end coordination protocol of the GUI framework:        *)
(* handshake, listener dispatch, page-name request loop and exit routine   *)
(* (src/engine/app_bases.py, src/app.py).                                  *)
(*                                                                         *)
(* Each multiprocessing queue is a pair (buf, pipe): put() appends to the  *)
(* sender's buffer, the queue's feeder thread moves messages to the pipe,  *)
(* and empty()/get() look at the pipe only, so a message that was put may  *)
(* not be visible yet.  Time is counted in poll intervals of 0.1 (one unit *)
(* = one time.sleep(0.1)).  A process ended by an exception (the 1/0 of    *)
(* _exit_program, a failed assert, a KeyError) takes no further step.      *)
(***************************************************************************)
EXTENDS Naturals, Integers, Sequences, FiniteSets, TLC

VARIABLES
    fe_pc,              \* front-end: position in __init__/wait_for_backend_ready/one_frame
    fe_msg,             \* front-end: (msg, data) last taken from from_backend
    fe_listeners,       \* front-end: keys of self.listeners
    existing_pages,     \* front-end: names of self.existing_pages
    active_page_idx,    \* front-end: self.active_page_idx
    fe_launches,        \* front-end: number of calls of _launch_main_loop
    be_pc,              \* back-end: position in launch_process/page_dispatcher/loop_entry_page
    be_msg,             \* back-end: (msg, data) last taken from from_frontend
    be_wait,            \* back-end: waiting_length, in poll intervals
    pagename_now,       \* back-end: self.pagename_now
    pagename_received,  \* back-end: local flag of page_dispatcher
    be_diag,            \* back-end: message printed by _exit_program
    fb_buf, fb_pipe,    \* queue front-end -> back-end (to_backend / from_frontend)
    bf_buf, bf_pipe,    \* queue back-end -> front-end (to_frontend / from_backend)
    sent,               \* history: <<side, tag, data>> of every send() of the two processes
    injected            \* history: <<channel, message>> put by another producer, in order

fe_vars == <<fe_pc, fe_msg, fe_listeners, existing_pages, active_page_idx, fe_launches>>
be_vars == <<be_pc, be_msg, be_wait, pagename_now, pagename_received, be_diag>>
vars == <<fe_pc, fe_msg, fe_listeners, existing_pages, active_page_idx, fe_launches,
          be_pc, be_msg, be_wait, pagename_now, pagename_received, be_diag,
          fb_buf, fb_pipe, bf_buf, bf_pipe, sent, injected>>

----------------------------------------------------------------------------
\* Bounds of the model

MaxInject == 1

\* Program constants

\* app.py:78  `if waiting_length > 5.0` with waiting_length in steps of 0.1
WaitBound == 50
\* app.py:77  `waiting_length += 0.1`
PollInterval == 1

----------------------------------------------------------------------------
\* Messages

Msg(t, d) == [tag |-> t, data |-> d]
NoMsg == Msg("", <<>>)

LifeFailureTag == "front end gave no sign of life: exiting program"

PageNames == {"entry page", "other page"}

\* the pages an application registers with add_page in its constructor
PageLists ==
    {<<>>, <<"entry page">>, <<"other page">>, <<"entry page", "other page">>}

HandshakeTags == {"front-end alive", "back-end initialised", "front-end main loop launching"}

\* messages another producer may put on a queue: the vocabulary of its direction
InjectMsgs(ch) ==
    IF ch = "FB"
    THEN {Msg("front-end alive", <<>>), Msg("front-end main loop launching", <<>>),
          Msg("exit program", <<>>), Msg("pagename received", <<"other page">>)}
    ELSE {Msg("back-end initialised", <<>>), Msg("pagename request", <<>>),
          Msg("exit program", <<>>)}

FrontListenersInit == {"back-end initialised", "exit program", "pagename request"}
BackListeners == {"exit program", "pagename received"}

\* what _exit_program prints: nothing yet, its default message, the payload a
\* listener call passed as message, or the unknown-page text ending in the name
NoDiag == [text |-> "", name |-> ""]
DefaultExitMessage == [text |-> "exiting program (no message)", name |-> ""]
PayloadMessage == [text |-> "[]", name |-> ""]
UnknownPageMessage(name) ==
    [text |-> "received an unknown page name from front end: ", name |-> name]

----------------------------------------------------------------------------
Init ==
    /\ fe_pc = "init"
    /\ fe_msg = NoMsg
    /\ fe_listeners = FrontListenersInit
    /\ existing_pages = <<>>
    /\ active_page_idx = -1
    /\ fe_launches = 0
    /\ be_pc = "unborn"
    /\ be_msg = NoMsg
    /\ be_wait = 0
    /\ pagename_now = "no page"
    /\ pagename_received = FALSE
    /\ be_diag = NoDiag
    /\ fb_buf = <<>> /\ fb_pipe = <<>>
    /\ bf_buf = <<>> /\ bf_pipe = <<>>
    /\ sent = <<>>
    /\ injected = <<>>

----------------------------------------------------------------------------
\* Channel primitives

FrontSend(m) ==
    /\ fb_buf' = Append(fb_buf, m)
    /\ sent' = Append(sent, <<"F", m.tag, m.data>>)

BackSend(m) ==
    /\ bf_buf' = Append(bf_buf, m)
    /\ sent' = Append(sent, <<"B", m.tag, m.data>>)

\* feeder thread of to_backend
DeliverFB ==
    /\ fb_buf # <<>>
    /\ fb_pipe' = Append(fb_pipe, Head(fb_buf))
    /\ fb_buf' = Tail(fb_buf)
    /\ UNCHANGED <<fe_vars, be_vars, bf_buf, bf_pipe, sent, injected>>

\* feeder thread of to_frontend
DeliverBF ==
    /\ bf_buf # <<>>
    /\ bf_pipe' = Append(bf_pipe, Head(bf_buf))
    /\ bf_buf' = Tail(bf_buf)
    /\ UNCHANGED <<fe_vars, be_vars, fb_buf, fb_pipe, sent, injected>>

\* a message put on a queue by a producer other than the two dispatch loops
Inject ==
    /\ fe_pc # "init"
    /\ Len(injected) < MaxInject
    /\ \E ch \in {"FB", "BF"} : \E m \in InjectMsgs(ch) :
          /\ injected' = Append(injected, <<ch, m>>)
          /\ IF ch = "FB"
             THEN fb_pipe' = Append(fb_pipe, m) /\ UNCHANGED bf_pipe
             ELSE bf_pipe' = Append(bf_pipe, m) /\ UNCHANGED fb_pipe
    /\ UNCHANGED <<fe_vars, be_vars, fb_buf, bf_buf, sent>>

----------------------------------------------------------------------------
\* Front-end (Base_Front_End, Front_End)

\* existing_pages[active_page_idx] with Python indexing (-1 is the last page)
PageAt(pages, idx) ==
    IF idx < 0 THEN pages[Len(pages) + idx + 1] ELSE pages[idx + 1]

\* change_page: index of the last page called `name`, -1 when there is none
FoundIdx(pages, name) ==
    LET hits == {i \in 1..Len(pages) : pages[i] = name}
    IN  IF hits = {} THEN -1
        ELSE (CHOOSE i \in hits : \A j \in hits : j <= i) - 1

\* _exit_program that returns to the frame loop after its send
Mut_Front_exit_program ==
    /\ FrontSend(Msg("exit program", <<>>))
    /\ fe_pc' = "frame_check"
    /\ fe_msg' = NoMsg
    /\ UNCHANGED <<fe_listeners, existing_pages, active_page_idx, fe_launches>>

\* _exit_program: send "exit program", then 1/0 ends the front-end
Front_exit_program ==
    /\ FrontSend(Msg("exit program", <<>>))
    /\ fe_pc' = "exited"
    /\ fe_msg' = NoMsg
    /\ UNCHANGED <<fe_listeners, existing_pages, active_page_idx, fe_launches>>

\* _launch_main_loop that keeps its listener registered
Mut_Front_launch_main_loop ==
    /\ fe_launches' = fe_launches + 1
    /\ fe_pc' = "frame_check"
    /\ fe_msg' = NoMsg
    /\ UNCHANGED <<fe_listeners, existing_pages, active_page_idx, fb_buf, sent>>

\* _launch_main_loop: del self.listeners[...], then run()
Front_launch_main_loop ==
    /\ fe_listeners' = fe_listeners \ {"back-end initialised"}
    /\ fe_launches' = fe_launches + 1
    /\ fe_pc' = "frame_check"
    /\ fe_msg' = NoMsg
    /\ UNCHANGED <<existing_pages, active_page_idx, fb_buf, sent>>

\* _send_pagename that always answers with the first registered page
Mut_Front_send_pagename(next) ==
    IF Len(existing_pages) < 1
    THEN Front_exit_program
    ELSE /\ FrontSend(Msg("pagename received", <<existing_pages[1]>>))
         /\ fe_pc' = next
         /\ fe_msg' = NoMsg
         /\ UNCHANGED <<fe_listeners, existing_pages, active_page_idx, fe_launches>>

\* _send_pagename, with the pagename property
Front_send_pagename(next) ==
    IF Len(existing_pages) < 1
    THEN Front_exit_program
    ELSE /\ FrontSend(Msg("pagename received",
                          <<PageAt(existing_pages, active_page_idx)>>))
         /\ fe_pc' = next
         /\ fe_msg' = NoMsg
         /\ UNCHANGED <<fe_listeners, existing_pages, active_page_idx, fe_launches>>

\* self.listeners[msg]() : KeyError when msg has no listener
FrontDispatch(next) ==
    IF fe_msg.tag \notin fe_listeners
    THEN /\ fe_pc' = "crashed"
         /\ UNCHANGED <<fe_msg, fe_listeners, existing_pages, active_page_idx,
                        fe_launches, fb_buf, sent>>
    ELSE IF fe_msg.tag = "back-end initialised" THEN Front_launch_main_loop
    ELSE IF fe_msg.tag = "exit program" THEN Front_exit_program
    ELSE Front_send_pagename(next)

\* Front_End.__init__: queues and listeners exist, send "front-end alive",
\* then the application registers its pages
FrontInit ==
    /\ fe_pc = "init"
    /\ \E pages \in PageLists : existing_pages' = pages
    /\ FrontSend(Msg("front-end alive", <<>>))
    /\ fe_pc' = "spawn"
    /\ UNCHANGED <<fe_msg, fe_listeners, active_page_idx, fe_launches,
                   be_vars, fb_pipe, bf_buf, bf_pipe, injected>>

\* __main__: Back_End(...) starts the worker, then wait_for_backend_ready()
LaunchBackEnd ==
    /\ fe_pc = "spawn"
    /\ be_pc = "unborn"
    /\ fe_pc' = "wait_ready"
    /\ be_pc' = "start"
    /\ UNCHANGED <<fe_msg, fe_listeners, existing_pages, active_page_idx, fe_launches,
                   be_msg, be_wait, pagename_now, pagename_received, be_diag,
                   fb_buf, fb_pipe, bf_buf, bf_pipe, sent, injected>>

\* wait_for_backend_ready: leave the sleep loop and get()
FrontWaitGet ==
    /\ fe_pc = "wait_ready"
    /\ bf_pipe # <<>>
    /\ fe_msg' = Head(bf_pipe)
    /\ bf_pipe' = Tail(bf_pipe)
    /\ fe_pc' = "ready_assert"
    /\ UNCHANGED <<fe_listeners, existing_pages, active_page_idx, fe_launches,
                   be_vars, fb_buf, fb_pipe, bf_buf, sent, injected>>

\* the acknowledgement sent with the tag of the alive signal
Mut_FrontWaitAck ==
    /\ fe_pc = "ready_assert"
    /\ IF bf_pipe = <<>> /\ fe_msg.tag = "back-end initialised"
       THEN /\ FrontSend(Msg("front-end alive", <<>>))
            /\ fe_pc' = "ready_launch"
            /\ UNCHANGED fe_msg
       ELSE /\ fe_pc' = "crashed"
            /\ UNCHANGED <<fe_msg, fb_buf, sent>>
    /\ UNCHANGED <<fe_listeners, existing_pages, active_page_idx, fe_launches,
                   be_vars, fb_pipe, bf_buf, bf_pipe, injected>>

\* wait_for_backend_ready: the two asserts, then send the acknowledgement
FrontWaitAck ==
    /\ fe_pc = "ready_assert"
    /\ IF bf_pipe = <<>> /\ fe_msg.tag = "back-end initialised"
       THEN /\ FrontSend(Msg("front-end main loop launching", <<>>))
            /\ fe_pc' = "ready_launch"
            /\ UNCHANGED fe_msg
       ELSE /\ fe_pc' = "crashed"
            /\ UNCHANGED <<fe_msg, fb_buf, sent>>
    /\ UNCHANGED <<fe_listeners, existing_pages, active_page_idx, fe_launches,
                   be_vars, fb_pipe, bf_buf, bf_pipe, injected>>

\* wait_for_backend_ready that starts the frame loop without calling the listener
Mut_FrontWaitLaunch ==
    /\ fe_pc = "ready_launch"
    /\ fe_pc' = "frame_check"
    /\ fe_msg' = NoMsg
    /\ fe_launches' = fe_launches + 1
    /\ UNCHANGED <<fe_listeners, existing_pages, active_page_idx, fb_buf, sent>>
    /\ UNCHANGED <<be_vars, fb_pipe, bf_buf, bf_pipe, injected>>

\* wait_for_backend_ready: self.listeners[msg]()
FrontWaitLaunch ==
    /\ fe_pc = "ready_launch"
    /\ FrontDispatch("frame_check")
    /\ UNCHANGED <<be_vars, fb_pipe, bf_buf, bf_pipe, injected>>

\* one_frame: `while not self.from_backend.empty()` finds a message (when it finds
\* none the frame ends with update() and render, and the next frame checks again)
FrontFrameCheck ==
    /\ fe_pc = "frame_check"
    /\ bf_pipe # <<>>
    /\ fe_pc' = "frame_get"
    /\ UNCHANGED <<fe_msg, fe_listeners, existing_pages, active_page_idx, fe_launches,
                   be_vars, fb_buf, fb_pipe, bf_buf, bf_pipe, sent, injected>>

\* one_frame: self.from_backend.get(), which blocks on an empty queue
FrontFrameGet ==
    /\ fe_pc = "frame_get"
    /\ bf_pipe # <<>>
    /\ fe_msg' = Head(bf_pipe)
    /\ bf_pipe' = Tail(bf_pipe)
    /\ fe_pc' = "frame_dispatch"
    /\ UNCHANGED <<fe_listeners, existing_pages, active_page_idx, fe_launches,
                   be_vars, fb_buf, fb_pipe, bf_buf, sent, injected>>

\* one_frame: self.listeners[msg]()
FrontFrameDispatch ==
    /\ fe_pc = "frame_dispatch"
    /\ FrontDispatch("frame_check")
    /\ UNCHANGED <<be_vars, fb_pipe, bf_buf, bf_pipe, injected>>

\* change_page(pagename), called by the application from update() once the
\* frame has drained from_backend
FrontChangePage ==
    /\ fe_pc = "frame_check"
    /\ bf_pipe = <<>>
    /\ \E name \in PageNames :
          IF FoundIdx(existing_pages, name) < 0
          THEN Front_exit_program
          ELSE /\ active_page_idx' = FoundIdx(existing_pages, name)
               /\ fe_pc' = "frame_check"
               /\ UNCHANGED <<fe_msg, fe_listeners, existing_pages, fe_launches,
                              fb_buf, sent>>
    /\ UNCHANGED <<be_vars, fb_pipe, bf_buf, bf_pipe, injected>>

\* the statements of __main__, wait_for_backend_ready and one_frame
FrontProtocolStep ==
    \/ FrontInit
    \/ LaunchBackEnd
    \/ FrontWaitGet
    \/ FrontWaitAck
    \/ FrontWaitLaunch
    \/ FrontFrameCheck
    \/ FrontFrameGet
    \/ FrontFrameDispatch

\* the front-end's code and the calls an application may make from update()
FrontStep ==
    \/ FrontProtocolStep
    \/ FrontChangePage

----------------------------------------------------------------------------
\* Back-end (Base_Back_End, Back_End)

\* _exit_program(message): send "exit program", print, then 1/0 ends the worker
Back_exit_program(message) ==
    /\ BackSend(Msg("exit program", <<>>))
    /\ be_diag' = message
    /\ be_pc' = "exited"
    /\ be_msg' = NoMsg
    /\ UNCHANGED <<be_wait, pagename_now, pagename_received>>

\* an uncaught KeyError, IndexError, TypeError or AssertionError ends the worker
\* (be_msg keeps the message that raised it)
BackCrash ==
    /\ be_pc' = "crashed"
    /\ UNCHANGED <<be_msg, be_wait, pagename_now, pagename_received, be_diag,
                   bf_buf, sent>>

\* the except branch of Base_Back_End.launch_process: send(...), return False,
\* and Back_End.launch_process returns
BackLifeFailure ==
    /\ BackSend(Msg(LifeFailureTag, <<>>))
    /\ be_pc' = "returned"
    /\ be_msg' = NoMsg
    /\ UNCHANGED <<be_wait, pagename_now, pagename_received, be_diag>>

\* _update_page_name that drops the name it is given
Mut_Back_update_page_name(parameters, next) ==
    IF Len(parameters) < 1
    THEN BackCrash
    ELSE /\ be_pc' = next
         /\ be_msg' = NoMsg
         /\ UNCHANGED <<be_wait, pagename_now, pagename_received, be_diag, bf_buf, sent>>

\* _update_page_name(parameters)
Back_update_page_name(parameters, next) ==
    IF Len(parameters) < 1
    THEN BackCrash
    ELSE /\ pagename_now' = parameters[1]
         /\ be_pc' = next
         /\ be_msg' = NoMsg
         /\ UNCHANGED <<be_wait, pagename_received, be_diag, bf_buf, sent>>

\* a dispatch that answers a tag without listener by waiting for the
\* acknowledgement again
Mut_BackDispatchData(next) ==
    IF be_msg.tag \notin BackListeners
    THEN /\ be_pc' = "ack_wait"
         /\ UNCHANGED <<be_msg, be_wait, pagename_now, pagename_received, be_diag,
                        bf_buf, sent>>
    ELSE IF be_msg.tag = "exit program" THEN Back_exit_program(PayloadMessage)
    ELSE Back_update_page_name(be_msg.data, next)

\* self.listeners[msg](data), as page_dispatcher calls it
BackDispatchData(next) ==
    IF be_msg.tag \notin BackListeners THEN BackCrash
    ELSE IF be_msg.tag = "exit program" THEN Back_exit_program(PayloadMessage)
    ELSE Back_update_page_name(be_msg.data, next)

\* self.listeners[msg](), as loop_entry_page calls it: _update_page_name()
\* lacks its argument (TypeError)
BackDispatchNoData ==
    IF be_msg.tag \notin BackListeners THEN BackCrash
    ELSE IF be_msg.tag = "exit program" THEN Back_exit_program(DefaultExitMessage)
    ELSE BackCrash

\* Base_Back_End.launch_process: assert not empty, get()
BackStartCheck ==
    /\ be_pc = "start"
    /\ IF fb_pipe = <<>>
       THEN BackLifeFailure /\ UNCHANGED fb_pipe
       ELSE /\ be_msg' = Head(fb_pipe)
            /\ fb_pipe' = Tail(fb_pipe)
            /\ be_pc' = "alive_assert"
            /\ UNCHANGED <<be_wait, pagename_now, pagename_received, be_diag,
                           bf_buf, sent>>
    /\ UNCHANGED <<fe_vars, fb_buf, bf_pipe, injected>>

\* Base_Back_End.launch_process: assert empty, assert msg == "front-end alive"
BackAliveAssert ==
    /\ be_pc = "alive_assert"
    /\ IF fb_pipe = <<>> /\ be_msg.tag = "front-end alive"
       THEN /\ be_pc' = "initialise"
            /\ be_msg' = NoMsg
            /\ UNCHANGED <<be_wait, pagename_now, pagename_received, be_diag,
                           bf_buf, sent>>
       ELSE BackLifeFailure
    /\ UNCHANGED <<fe_vars, fb_buf, fb_pipe, bf_pipe, injected>>

\* Back_End.launch_process steps 2-3: send "back-end initialised", waiting_length = 0.0
BackSendInitialised ==
    /\ be_pc = "initialise"
    /\ BackSend(Msg("back-end initialised", <<>>))
    /\ be_wait' = 0
    /\ be_pc' = "ack_wait"
    /\ UNCHANGED <<be_msg, pagename_now, pagename_received, be_diag,
                   fe_vars, fb_buf, fb_pipe, bf_pipe, injected>>

\* Back_End.launch_process step 4: the test of `while self.from_frontend.empty()`:
\* into the sleep when the queue is empty, else the loop ends and get() takes
\* the message
BackAckPoll ==
    /\ be_pc = "ack_wait"
    /\ IF fb_pipe = <<>>
       THEN /\ be_pc' = "ack_sleep"
            /\ UNCHANGED <<be_msg, be_wait, pagename_now, pagename_received, be_diag,
                           fb_pipe, bf_buf, sent>>
       ELSE /\ be_msg' = Head(fb_pipe)
            /\ fb_pipe' = Tail(fb_pipe)
            /\ be_pc' = "ack_assert"
            /\ be_wait' = 0     \* waiting_length is not read after the loop
            /\ UNCHANGED <<pagename_now, pagename_received, be_diag, bf_buf, sent>>
    /\ UNCHANGED <<fe_vars, fb_buf, bf_pipe, injected>>

\* an acknowledgement wait whose time-out goes on into page_dispatcher
Mut_BackAckSleep ==
    /\ be_pc = "ack_sleep"
    /\ be_wait' = be_wait + PollInterval
    /\ IF be_wait + PollInterval > WaitBound
       THEN /\ BackSend(Msg("exit program", <<>>))
            /\ be_diag' = DefaultExitMessage
            /\ be_pc' = "pd_send"
            /\ UNCHANGED <<be_msg, pagename_now, pagename_received>>
       ELSE /\ be_pc' = "ack_wait"
            /\ UNCHANGED <<be_msg, pagename_now, pagename_received, be_diag,
                           bf_buf, sent>>
    /\ UNCHANGED <<fe_vars, fb_buf, fb_pipe, bf_pipe, injected>>

\* Back_End.launch_process step 4, the body of the wait loop: once sleep(0.1)
\* has returned, waiting_length += 0.1 and, above 5.0, _exit_program(); the
\* queue is not looked at again before that
BackAckSleep ==
    /\ be_pc = "ack_sleep"
    /\ be_wait' = be_wait + PollInterval
    /\ IF be_wait + PollInterval > WaitBound
       THEN /\ BackSend(Msg("exit program", <<>>))
            /\ be_diag' = DefaultExitMessage
            /\ be_pc' = "exited"
            /\ UNCHANGED <<be_msg, pagename_now, pagename_received>>
       ELSE /\ be_pc' = "ack_wait"
            /\ UNCHANGED <<be_msg, pagename_now, pagename_received, be_diag,
                           bf_buf, sent>>
    /\ UNCHANGED <<fe_vars, fb_buf, fb_pipe, bf_pipe, injected>>

\* Back_End.launch_process: the two asserts, then step 5: pagename_now = "entry page"
\* and the call of page_dispatcher
BackAckAssert ==
    /\ be_pc = "ack_assert"
    /\ IF fb_pipe = <<>> /\ be_msg.tag = "front-end main loop launching"
       THEN /\ pagename_now' = "entry page"
            /\ be_pc' = "pd_send"
            /\ be_msg' = NoMsg
            /\ UNCHANGED <<be_wait, pagename_received, be_diag, bf_buf, sent>>
       ELSE BackCrash
    /\ UNCHANGED <<fe_vars, fb_buf, fb_pipe, bf_pipe, injected>>

\* page_dispatcher: send "pagename request", pagename_received = False
BackPdSend ==
    /\ be_pc = "pd_send"
    /\ BackSend(Msg("pagename request", <<>>))
    /\ pagename_received' = FALSE
    /\ be_pc' = "pd_poll"
    /\ UNCHANGED <<be_msg, be_wait, pagename_now, be_diag,
                   fe_vars, fb_buf, fb_pipe, bf_pipe, injected>>

\* page_dispatcher: `while not self.from_frontend.empty()` inside
\* `while not pagename_received` (sleeping while neither holds)
BackPdPoll ==
    /\ be_pc = "pd_poll"
    /\ fb_pipe # <<>> \/ pagename_received
    /\ be_pc' = IF fb_pipe # <<>> THEN "pd_get" ELSE "pd_select"
    /\ UNCHANGED <<be_msg, be_wait, pagename_now, pagename_received, be_diag,
                   fe_vars, fb_buf, fb_pipe, bf_buf, bf_pipe, sent, injected>>

\* page_dispatcher: self.from_frontend.get()
BackPdGet ==
    /\ be_pc = "pd_get"
    /\ fb_pipe # <<>>
    /\ be_msg' = Head(fb_pipe)
    /\ fb_pipe' = Tail(fb_pipe)
    /\ be_pc' = "pd_resend"
    /\ UNCHANGED <<be_wait, pagename_now, pagename_received, be_diag,
                   fe_vars, fb_buf, bf_buf, bf_pipe, sent, injected>>

\* page_dispatcher: set the flag, or re-send the request when to_frontend is empty
BackPdResend ==
    /\ be_pc = "pd_resend"
    /\ IF be_msg.tag = "pagename received"
       THEN pagename_received' = TRUE /\ UNCHANGED <<bf_buf, sent>>
       ELSE IF bf_pipe = <<>>
            THEN BackSend(Msg("pagename request", <<>>)) /\ UNCHANGED pagename_received
            ELSE UNCHANGED <<pagename_received, bf_buf, sent>>
    /\ be_pc' = "pd_dispatch"
    /\ UNCHANGED <<be_msg, be_wait, pagename_now, be_diag,
                   fe_vars, fb_buf, fb_pipe, bf_pipe, injected>>

\* page_dispatcher: self.listeners[msg](data)
BackPdDispatch ==
    /\ be_pc = "pd_dispatch"
    /\ BackDispatchData("pd_poll")
    /\ UNCHANGED <<fe_vars, fb_buf, fb_pipe, bf_pipe, injected>>

\* page_dispatcher that falls back to the entry page on an unknown page name
Mut_BackPdSelect ==
    /\ be_pc = "pd_select"
    /\ be_pc' = "loop"
    /\ UNCHANGED <<be_msg, be_wait, pagename_now, pagename_received, be_diag,
                   bf_buf, sent>>
    /\ UNCHANGED <<fe_vars, fb_buf, fb_pipe, bf_pipe, injected>>

\* page_dispatcher: choose the page loop, or exit on an unknown page name
BackPdSelect ==
    /\ be_pc = "pd_select"
    /\ IF pagename_now = "entry page"
       THEN /\ be_pc' = "loop"
            /\ UNCHANGED <<be_msg, be_wait, pagename_now, pagename_received, be_diag,
                           bf_buf, sent>>
       ELSE Back_exit_program(UnknownPageMessage(pagename_now))
    /\ UNCHANGED <<fe_vars, fb_buf, fb_pipe, bf_pipe, injected>>

\* loop_entry_page: `while not page_changed` and the page's work
BackLoopWork ==
    /\ be_pc = "loop"
    /\ be_pc' = "loop_check"
    /\ UNCHANGED <<be_msg, be_wait, pagename_now, pagename_received, be_diag,
                   fe_vars, fb_buf, fb_pipe, bf_buf, bf_pipe, sent, injected>>

\* loop_entry_page: `while not self.to_frontend.empty()`
BackLoopCheck ==
    /\ be_pc = "loop_check"
    /\ be_pc' = IF bf_pipe # <<>> THEN "loop_get" ELSE "loop"
    /\ UNCHANGED <<be_msg, be_wait, pagename_now, pagename_received, be_diag,
                   fe_vars, fb_buf, fb_pipe, bf_buf, bf_pipe, sent, injected>>

\* loop_entry_page: self.from_frontend.get(), which blocks on an empty queue
BackLoopGet ==
    /\ be_pc = "loop_get"
    /\ fb_pipe # <<>>
    /\ be_msg' = Head(fb_pipe)
    /\ fb_pipe' = Tail(fb_pipe)
    /\ be_pc' = "loop_dispatch"
    /\ UNCHANGED <<be_wait, pagename_now, pagename_received, be_diag,
                   fe_vars, fb_buf, bf_buf, bf_pipe, sent, injected>>

\* loop_entry_page: self.listeners[msg]()
BackLoopDispatch ==
    /\ be_pc = "loop_dispatch"
    /\ BackDispatchNoData
    /\ UNCHANGED <<fe_vars, fb_buf, fb_pipe, bf_pipe, injected>>

BackStep ==
    \/ BackStartCheck
    \/ BackAliveAssert
    \/ BackSendInitialised
    \/ BackAckPoll
    \/ BackAckSleep
    \/ BackAckAssert
    \/ BackPdSend
    \/ BackPdPoll
    \/ BackPdGet
    \/ BackPdResend
    \/ BackPdDispatch
    \/ BackPdSelect
    \/ BackLoopWork
    \/ BackLoopCheck
    \/ BackLoopGet
    \/ BackLoopDispatch

Next ==
    \/ FrontStep
    \/ BackStep
    \/ DeliverFB
    \/ DeliverBF
    \/ Inject

Spec == Init /\ [][Next]_vars

\* Scheduling: both processes and both feeder threads keep running; nothing
\* obliges the application to call change_page (update() is a no-op as shipped)
FairSpec ==
    /\ Spec
    /\ WF_vars(FrontProtocolStep)
    /\ WF_vars(BackStep)
    /\ WF_vars(DeliverFB)
    /\ WF_vars(DeliverBF)

----------------------------------------------------------------------------
\* Vocabulary of the properties

IsPrefix(s, t) == Len(s) <= Len(t) /\ s = SubSeq(t, 1, Len(s))

IsHandshakeEntry(e) == e[2] \in HandshakeTags
HandshakeLog == SelectSeq(sent, IsHandshakeEntry)

ExpectedHandshake ==
    << <<"F", "front-end alive", <<>> >>,
       <<"B", "back-end initialised", <<>> >>,
       <<"F", "front-end main loop launching", <<>> >> >>

Sends(side, tag) == {i \in 1..Len(sent) : sent[i][1] = side /\ sent[i][2] = tag}

FB == fb_pipe \o fb_buf
BF == bf_pipe \o bf_buf
Holds(q, tag) == \E i \in 1..Len(q) : q[i].tag = tag

BackPolling == be_pc \in {"pd_poll", "pd_get", "pd_resend", "pd_dispatch"}
BackInLoop == be_pc \in {"loop", "loop_check", "loop_get", "loop_dispatch"}
BackSteady == be_pc \in {"pd_send", "pd_select"} \/ BackPolling \/ BackInLoop
BackEnded == be_pc \in {"returned", "exited", "crashed"}
FrontSteady == fe_pc \in {"frame_check", "frame_get", "frame_dispatch"}

----------------------------------------------------------------------------
\* C1: in a run without injected messages the handshake tags are sent in the
\* order front-end alive (F), back-end initialised (B), front-end main loop
\* launching (F), none of them twice, and all three have been sent once either
\* process is in its steady state.
C1_HandshakeOrder ==
    injected = <<>> =>
        /\ IsPrefix(HandshakeLog, ExpectedHandshake)
        /\ (BackSteady \/ FrontSteady) => HandshakeLog = ExpectedHandshake

C1_Witness ==
    /\ injected = <<>>
    /\ be_pc = "pd_send"
    /\ FrontSteady
    /\ HandshakeLog = ExpectedHandshake

\* C2: once the handshake is over, an `exit program` the front-end has put on
\* F->B is eventually consumed by the back-end, which then terminates, in the
\* page-name polling loop and in the page loop alike.
C2_ExitReachesBackEnd ==
    (injected = <<>> /\ BackSteady /\ Holds(FB, "exit program"))
        ~> (be_pc = "exited" \/ injected # <<>>)

\* C3: a steady-state get() is only executed on a non-empty inbound queue.
C3_GetOnlyWhenNonEmpty ==
    /\ fe_pc = "frame_get" => bf_pipe # <<>>
    /\ be_pc = "pd_get" => fb_pipe # <<>>
    /\ be_pc = "loop_get" => fb_pipe # <<>>

\* C4: a startup liveness failure with no `front-end alive` received comes no
\* sooner than the bound of 5.0 and no later than the bound plus one poll.
C4_StartupWaitBounded ==
    (be_pc = "returned" /\ injected = <<>> /\ Holds(FB, "front-end alive"))
        => (be_wait >= WaitBound /\ be_wait <= WaitBound + PollInterval)

\* C5: a failed startup liveness check puts `exit program` on B->F, and the
\* back-end ends without sending `back-end initialised` or entering the dispatcher.
C5_LifeFailureSignalsExit ==
    be_pc = "returned" =>
        /\ Sends("B", "exit program") # {}
        /\ Sends("B", "back-end initialised") = {}
        /\ Sends("B", "pagename request") = {}

\* C6: _launch_main_loop runs at most once; after it has run, `back-end
\* initialised` is not in the front-end listener table, and a later
\* `back-end initialised` taken by one_frame ends the front-end with a KeyError
\* instead of running the listener again or being skipped.
C6_LaunchOnce ==
    /\ [](fe_launches <= 1)
    /\ [](fe_launches >= 1 => "back-end initialised" \notin fe_listeners)
    /\ [][(fe_pc = "frame_dispatch" /\ fe_msg.tag = "back-end initialised"
             /\ fe_pc' # fe_pc)
          => (fe_pc' = "crashed" /\ fe_launches' = fe_launches)]_vars

C6_Witness ==
    /\ fe_pc = "crashed"
    /\ fe_msg.tag = "back-end initialised"
    /\ fe_launches = 1
    /\ "back-end initialised" \notin fe_listeners

\* C7: a process ended by a protocol violation (missing listener, unexpected tag
\* or second message at a handshake wait) has put `exit program` on its
\* outbound queue.
C7_ViolationSendsExit ==
    /\ fe_pc = "crashed" => Sends("F", "exit program") # {}
    /\ be_pc = "crashed" => Sends("B", "exit program") # {}

\* C8: only _update_page_name writes pagename_now, so it is still "no page" when
\* the back-end enters page_dispatcher.
C8_PagenameOnlyByListener ==
    /\ [](be_pc = "pd_send" => pagename_now = "no page")
    /\ [][pagename_now' # pagename_now
          => (be_pc = "pd_dispatch" /\ be_msg.tag = "pagename received")]_vars

\* C9 as stated: with a front-end that answers every request, the polling loop
\* is always left, and exactly one `pagename received` has been consumed when
\* it is left, pagename_now being the name the front-end reported.
IsAnswerEntry(e) == e[1] = "F" /\ e[2] = "pagename received"
IsAnswerMsg(m) == m.tag = "pagename received"
AnswersSent == SelectSeq(sent, IsAnswerEntry)
AnswersConsumed == Len(AnswersSent) - Len(SelectSeq(FB, IsAnswerMsg))
OnlyRequestsInjected ==
    \A i \in 1..Len(injected) : injected[i] = <<"BF", Msg("pagename request", <<>>)>>

C9_ExactlyOneAnswer ==
    (OnlyRequestsInjected /\ be_pc = "pd_select") =>
        /\ AnswersConsumed = 1
        /\ pagename_now = AnswersSent[1][3][1]

\* C9, amended: with a front-end that answers every request (the only injected
\* messages are further `pagename request`s), the back-end always leaves the
\* polling loop; when it leaves it for the page selection it has consumed at
\* least one `pagename received` (exactly one when no request was repeated), and
\* pagename_now is the name carried by the last one consumed.
C9_Settles ==
    /\ []((OnlyRequestsInjected /\ be_pc = "pd_select") =>
            /\ AnswersConsumed >= 1
            /\ AnswersConsumed <= 1 + Len(injected)
            /\ pagename_now = AnswersSent[AnswersConsumed][3][1])
    /\ (OnlyRequestsInjected /\ BackPolling)
          ~> (~BackPolling \/ ~OnlyRequestsInjected)

C9_Witness ==
    /\ be_pc = "pd_select"
    /\ injected = << <<"BF", Msg("pagename request", <<>>)>> >>
    /\ AnswersConsumed = 2
    /\ pagename_now = AnswersSent[2][3][1]
    /\ AnswersSent[2][3] # AnswersSent[1][3]

\* C10: when the polling loop ends with a page name other than "entry page",
\* the back-end sends `exit program` and ends with a diagnostic naming that
\* page; it is in the page loop only with pagename_now = "entry page".
C10_UnknownPageFatal ==
    /\ [](BackInLoop => pagename_now = "entry page")
    /\ [][(be_pc = "pd_select" /\ pagename_now # "entry page" /\ be_pc' # be_pc)
          => /\ be_pc' = "exited"
             /\ be_diag' = UnknownPageMessage(pagename_now)
             /\ sent' = Append(sent, <<"B", "exit program", <<>> >>)]_vars
    /\ [][(be_pc = "pd_dispatch" /\ be_msg.tag = "pagename received"
             /\ be_pc' = "pd_poll")
          => pagename_now' = be_msg.data[1]]_vars

C10_Witness ==
    /\ be_pc = "exited"
    /\ be_diag = UnknownPageMessage("other page")
    /\ pagename_now = "other page"
    /\ sent[Len(sent)] = <<"B", "exit program", <<>> >>

----------------------------------------------------------------------------
\* C11: when the front-end dispatches a `pagename request` with at least one
\* page registered, that step puts exactly one `pagename received` on F->B,
\* carrying the one-element sequence with the name of the page at the active
\* index, and the front-end goes on with its frame; with no page registered
\* the step sends `exit program` instead and the front-end terminates.
C11_RequestAnswered ==
    [][(fe_pc = "frame_dispatch" /\ fe_msg.tag = "pagename request" /\ fe_pc' # fe_pc)
        => IF Len(existing_pages) >= 1
           THEN /\ sent' = Append(sent, <<"F", "pagename received",
                                          <<PageAt(existing_pages, active_page_idx)>> >>)
                /\ fb_buf' = Append(fb_buf,
                                    Msg("pagename received",
                                        <<PageAt(existing_pages, active_page_idx)>>))
                /\ fe_pc' = "frame_check"
           ELSE /\ sent' = Append(sent, <<"F", "exit program", <<>> >>)
                /\ fb_buf' = Append(fb_buf, Msg("exit program", <<>>))
                /\ fe_pc' = "exited"]_vars

C11_Witness ==
    /\ existing_pages = <<"entry page", "other page">>
    /\ active_page_idx = -1
    /\ fe_pc = "frame_check"
    /\ sent # <<>>
    /\ sent[Len(sent)] = <<"F", "pagename received", <<"other page">> >>

----------------------------------------------------------------------------
\* C12: each side sends `exit program` at most once per run; every step that
\* sends it adds exactly that one message and leaves the sender terminated;
\* a dispatched `exit program` received from the peer is such a step; and a
\* terminated process changes none of its state, sends nothing and takes
\* nothing from its inbound channel.
C12_ExitOnceThenSilent ==
    /\ [](/\ Cardinality(Sends("F", "exit program")) <= 1
          /\ Cardinality(Sends("B", "exit program")) <= 1)
    /\ [][(sent' # sent /\ sent'[Len(sent')][2] = "exit program")
          => /\ sent' = Append(sent, <<sent'[Len(sent')][1], "exit program", <<>> >>)
             /\ sent'[Len(sent')][1] = "F"
                   => fe_pc' = "exited" /\ fb_buf' = Append(fb_buf, Msg("exit program", <<>>))
             /\ sent'[Len(sent')][1] = "B"
                   => be_pc' = "exited" /\ bf_buf' = Append(bf_buf, Msg("exit program", <<>>))]_vars
    /\ [][(fe_pc = "frame_dispatch" /\ fe_msg.tag = "exit program" /\ fe_pc' # fe_pc)
          => /\ sent' = Append(sent, <<"F", "exit program", <<>> >>)
             /\ fe_pc' = "exited"]_vars
    /\ [][(be_pc \in {"pd_dispatch", "loop_dispatch"} /\ be_msg.tag = "exit program"
             /\ be_pc' # be_pc)
          => /\ sent' = Append(sent, <<"B", "exit program", <<>> >>)
             /\ be_pc' = "exited"]_vars
    /\ [][fe_pc = "exited"
          => /\ fe_vars' = fe_vars
             /\ IsPrefix(bf_pipe, bf_pipe')
             /\ sent' # sent => sent'[Len(sent')][1] = "B"]_vars
    /\ [][be_pc = "exited"
          => /\ be_vars' = be_vars
             /\ IsPrefix(fb_pipe, fb_pipe')
             /\ sent' # sent => sent'[Len(sent')][1] = "F"]_vars

C12_Witness ==
    /\ injected = <<>>
    /\ existing_pages = <<"entry page", "other page">>
    /\ fe_pc = "exited"
    /\ be_pc = "exited"
    /\ Len(sent) >= 2
    /\ sent[Len(sent) - 1] = <<"B", "exit program", <<>> >>
    /\ sent[Len(sent)] = <<"F", "exit program", <<>> >>

----------------------------------------------------------------------------
\* Phases of the two processes
FrontHandshaking == fe_pc \in {"init", "spawn", "wait_ready", "ready_assert", "ready_launch"}
BackHandshaking ==
    be_pc \in {"unborn", "start", "alive_assert", "initialise", "ack_wait", "ack_sleep",
              "ack_assert"}
FrontEnded == fe_pc \in {"exited", "crashed"}

\* the process `side` logs a send in this step, with a handshake tag
SendsHandshake(side) ==
    /\ sent' # sent
    /\ sent'[Len(sent')][1] = side
    /\ sent'[Len(sent')][2] \in HandshakeTags

\* the step takes a handshake message from the head of pipe
ConsumesHandshake(pipe, pipeNext) ==
    /\ pipe # <<>>
    /\ pipeNext = Tail(pipe)
    /\ Head(pipe).tag \in HandshakeTags

\* the phases are exclusive, and a process that has reached its steady state
\* stays there until it ends and sends no handshake message any more
PhasesOneWay ==
    /\ [](~(FrontHandshaking /\ FrontSteady) /\ ~(BackHandshaking /\ BackSteady))
    /\ [][FrontSteady => (FrontSteady' \/ FrontEnded') /\ ~SendsHandshake("F")]_vars
    /\ [][BackSteady => (BackSteady' \/ BackEnded') /\ ~SendsHandshake("B")]_vars
    /\ [][FrontEnded /\ fe_launches > 0 => FrontEnded' /\ ~SendsHandshake("F")]_vars
    /\ [][BackEnded => BackEnded' /\ ~SendsHandshake("B")]_vars

\* C13: the two phases of a process exclude each other and the transition is
\* one-way: from its steady state on, a process never waits for the handshake
\* again, never sends a handshake message and never consumes one.
C13_PhasesOneWay ==
    /\ PhasesOneWay
    /\ [][FrontSteady => ~ConsumesHandshake(bf_pipe, bf_pipe')]_vars
    /\ [][BackSteady => ~ConsumesHandshake(fb_pipe, fb_pipe')]_vars

\* C13 as amended: as above, except that only in a run without injected
\* messages a process in its steady state never consumes a handshake message
\* (its steady-state loop takes whatever is at the head of its inbound queue).
C13_PhasesOneWayAmended ==
    /\ PhasesOneWay
    /\ [][(injected = <<>> /\ FrontSteady) => ~ConsumesHandshake(bf_pipe, bf_pipe')]_vars
    /\ [][(injected = <<>> /\ BackSteady) => ~ConsumesHandshake(fb_pipe, fb_pipe')]_vars

C13_Witness ==
    /\ injected = <<>>
    /\ FrontSteady
    /\ BackInLoop
    /\ HandshakeLog = ExpectedHandshake
    /\ Sends("B", "pagename request") # {}
    /\ Sends("F", "pagename received") # {}
    /\ fb_pipe = <<>>

----------------------------------------------------------------------------
\* C14: in a run without injected messages every handshake receive is followed
\* by assertions that hold: when the back-end has taken `front-end alive`, the
\* front-end `back-end initialised`, or the back-end `front-end main loop
\* launching`, the message has the awaited tag and the inbound queue is empty
\* when the singularity assertion looks at it.
C14_HandshakeAssertsHold ==
    injected = <<>> =>
        /\ be_pc = "alive_assert" => (fb_pipe = <<>> /\ be_msg.tag = "front-end alive")
        /\ fe_pc = "ready_assert" => (bf_pipe = <<>> /\ fe_msg.tag = "back-end initialised")
        /\ be_pc = "ack_assert"
              => (fb_pipe = <<>> /\ be_msg.tag = "front-end main loop launching")

----------------------------------------------------------------------------
\* C15: in the polling loop of page_dispatcher a consumed message is dispatched
\* before any `pagename request` is re-sent for it: between taking a message
\* from F->B and calling its listener the back-end sends nothing, so the
\* dispatch of a consumed `exit program` is never preceded by a re-sent request.
C15_DispatchBeforeResend ==
    [][(be_pc = "pd_resend" /\ be_pc' = "pd_dispatch") => sent' = sent]_vars

----------------------------------------------------------------------------
\* C16: the back-end's wait for the acknowledgement is bounded. While it waits
\* the accumulated time is at most the bound; every sleep that follows a test
\* finding F->B empty adds one interval, and the one that brings the time
\* above the bound (to at most the bound plus one interval) sends `exit
\* program` and terminates the back-end, which then never enters
\* page_dispatcher; every wait ends, with the time-out or with a message taken
\* from F->B.
C16_AckWaitBounded ==
    /\ [](be_pc \in {"ack_wait", "ack_sleep"} => be_wait <= WaitBound)
    /\ [][(be_pc = "ack_wait" /\ fb_pipe = <<>> /\ be_pc' # be_pc)
          => be_pc' = "ack_sleep" /\ be_wait' = be_wait /\ sent' = sent]_vars
    /\ [][(be_pc = "ack_sleep" /\ be_pc' # be_pc)
          => /\ be_wait' = be_wait + PollInterval
             /\ IF be_wait' > WaitBound
                THEN /\ be_wait' <= WaitBound + PollInterval
                     /\ sent' = Append(sent, <<"B", "exit program", <<>> >>)
                     /\ be_pc' = "exited"
                     /\ pagename_now' = "no page"
                ELSE be_pc' = "ack_wait" /\ sent' = sent]_vars
    /\ [][(be_pc = "exited" /\ be_wait > WaitBound)
          => /\ be_vars' = be_vars
             /\ sent' # sent => sent'[Len(sent')][1] = "F"]_vars
    /\ [](be_pc \in {"ack_wait", "ack_sleep"}
            => <>(\/ be_pc = "exited" /\ be_wait = WaitBound + PollInterval
                  \/ be_pc = "ack_assert"))

C16_Witness ==
    /\ be_pc = "exited"
    /\ be_wait = WaitBound + PollInterval
    /\ Sends("F", "front-end main loop launching") = {}
    /\ Sends("B", "back-end initialised") # {}
    /\ fb_pipe = <<>>
    /\ sent[Len(sent)] = <<"B", "exit program", <<>> >>
    /\ pagename_now = "no page"

----------------------------------------------------------------------------
AckSent == Sends("F", "front-end main loop launching") # {}
InitialisedListenerGone == "back-end initialised" \notin fe_listeners

\* C17: on `back-end initialised` the front-end first removes the listener
\* entry, then sends `front-end main loop launching`, then enters its run
\* loop: in every state where it has sent the acknowledgement, the listener
\* entry is already gone.
C17_ListenerGoneBeforeAck ==
    AckSent => InitialisedListenerGone

\* C17 as amended: the front-end first sends the acknowledgement, then removes
\* the listener entry, then enters its run loop: the listener entry is gone
\* only in states where the acknowledgement has been sent, and the front-end
\* is in its run loop only in states where both have happened.
C17_AckThenListenerGone ==
    /\ [](InitialisedListenerGone => AckSent)
    /\ [](FrontSteady => (InitialisedListenerGone /\ AckSent))
    /\ [][(fe_pc = "ready_assert" /\ fe_pc' = "ready_launch")
          => /\ sent' = Append(sent, <<"F", "front-end main loop launching", <<>> >>)
             /\ ~InitialisedListenerGone'
             /\ fe_launches' = 0]_vars
    /\ [][(fe_pc = "ready_launch" /\ fe_pc' # fe_pc)
          => /\ ~InitialisedListenerGone /\ InitialisedListenerGone'
             /\ sent' = sent
             /\ fe_pc' = "frame_check"]_vars

C17_Witness ==
    /\ fe_pc = "ready_launch"
    /\ fb_buf # <<>>
    /\ fb_buf[Len(fb_buf)].tag = "front-end main loop launching"
    /\ AckSent
    /\ ~InitialisedListenerGone

====
